---------------------------- MODULE Spec2Model ----------------------------
(***************************************************************************)
(* A model of src/utils/sheets_parser.py: the activity resolver            *)
(* (find_activity), the parameter builder (process_parameters), the        *)
(* custom/modified activity builder (create_custom_activities) and the     *)
(* foreground builder (create_foreground).                                 *)
(*                                                                         *)
(* The lca_algebraic framework (agb) is external.  Its databases are the   *)
(* state it owns: BaseDB (ecoinvent, read-only) and customDB (the          *)
(* foreground database, grown by newActivity and copyActivity).  A lookup  *)
(* either returns one activity or raises; create, copy, update and         *)
(* parameter constructors may raise at any call.                           *)
(***************************************************************************)
EXTENDS Integers, Sequences, FiniteSets, TLC

\* The longest data table (rows of one sheet) that is enumerated.
MaxRows == 2

\* pandas' missing cell (NaN); pd.isna / pd.notna test for it.
Missing == "NaN"
\* An optional argument that the caller did not pass.
NotGiven == "<not given>"

notna(x) == x # Missing
isna(x) == x = Missing

\* --------------------------------------------------------------------------
\* The framework's databases and lookups
\* --------------------------------------------------------------------------

\* Python's None, as returned by find_activity.
NoneAct == [db |-> "None", name |-> "None", loc |-> "None"]

\* The ecoinvent database: "e1" exists at two locations, so that a lookup of
\* "e1" by name alone is ambiguous and one by name and location is not; "e2"
\* exists once.
BaseDB ==
    { [db |-> "ecoinvent", name |-> "e1", loc |-> "FR"],
      [db |-> "ecoinvent", name |-> "e1", loc |-> "DE"],
      [db |-> "ecoinvent", name |-> "e2", loc |-> "FR"] }

\* The names of the two custom/modified sheets, in the order of the metadata
\* table's index.
SheetNames == <<"A", "B">>
SheetSet == {SheetNames[i] : i \in 1..Len(SheetNames)}

Raised == [ok |-> FALSE, act |-> NoneAct]
Found(a) == [ok |-> TRUE, act |-> a]

\* agb.findActivity(name, db_name=custom_db): the activity of that name in
\* the custom database, or an exception.
agb_findActivity(name, db) ==
    IF name \in db
    THEN Found([db |-> "custom", name |-> name, loc |-> Missing])
    ELSE Raised

\* agb.findTechAct(name, loc=loc) and agb.findTechAct(name): the one activity
\* of ecoinvent with that name (and location, when one is passed: a NaN
\* location equals no location); none or several raise.
agb_findTechAct(name, loc) ==
    LET matches == {a \in BaseDB :
                      a.name = name /\ (loc = NotGiven \/ a.loc = loc)}
    IN  IF Cardinality(matches) = 1
        THEN Found(CHOOSE a \in matches : TRUE)
        ELSE Raised

\* --------------------------------------------------------------------------
\* find_activity
\* --------------------------------------------------------------------------

\* One guarded lookup in the custom database (lines 10-15 and 17-22): skipped
\* when the name is missing; an exception is caught and printed.  `row` only
\* tags the call with the row of the caller's table it was made for.
TryCustomDb(name, custom_db, row) ==
    IF notna(name)
    THEN [res |-> agb_findActivity(name, custom_db),
          calls |-> <<[op |-> "findActivity", name |-> name, row |-> row]>>]
    ELSE [res |-> Raised, calls |-> <<>>]

\* A faulty variant of BaseLocArg: the location is never passed.
BaseLocArg_never(location) == NotGiven

\* Lines 25-28: the location is passed to findTechAct only when it is there.
BaseLocArg(location) == IF notna(location) THEN location ELSE NotGiven

\* The fallback lookup in ecoinvent (lines 24-31).
TryBase(ei_activity_name, location, row) ==
    [res |-> agb_findTechAct(ei_activity_name, BaseLocArg(location)),
     calls |-> <<[op |-> "findTechAct", name |-> ei_activity_name,
                  loc |-> BaseLocArg(location), row |-> row]>>]

\* The first attempt that succeeds, with the calls made up to it; NoneAct
\* (line 31) when the last one fails too.
FirstSuccess(t1, t2, t3) ==
    IF t1.res.ok THEN [ret |-> t1.res.act, calls |-> t1.calls]
    ELSE IF t2.res.ok THEN [ret |-> t2.res.act, calls |-> t1.calls \o t2.calls]
    ELSE [ret |-> t3.res.act, calls |-> t1.calls \o t2.calls \o t3.calls]

\* A faulty variant of find_activity: the custom process is tried before the
\* modified activity.
find_activity_custom_first(ei_activity_name, location, custom_process_name, modified_activity_name, custom_db, row) ==
    FirstSuccess(TryCustomDb(custom_process_name, custom_db, row),
                 TryCustomDb(modified_activity_name, custom_db, row),
                 TryBase(ei_activity_name, location, row))

\* find_activity: its return value (an activity or NoneAct) and the framework
\* lookups it made, in order.
find_activity(ei_activity_name, location, custom_process_name, modified_activity_name, custom_db, row) ==
    FirstSuccess(TryCustomDb(modified_activity_name, custom_db, row),
                 TryCustomDb(custom_process_name, custom_db, row),
                 TryBase(ei_activity_name, location, row))

\* --------------------------------------------------------------------------
\* Inputs
\* --------------------------------------------------------------------------

\* All tables of at most MaxRows rows drawn from `rows`.
Tables(rows) == UNION {[1..n -> rows] : n \in 0..MaxRows}

ParamNumbers == {1, 2}
\* A parameter handle is modelled by the default value it was created with;
\* evaluating a parameter expression yields that amount.
Defaults == {2, 3}

\* The cells of the "Type" column as typed in the sheet.
RawTypes == {" Float ", "bool", "ENUM", "int"}

\* Line 43 and line 47: str.strip().str.lower().
Normalize(t) ==
    CASE t = " Float " -> "float"
      [] t = "ENUM" -> "enum"
      [] OTHER -> t

\* Rows of a parameter sheet.  A row without 'EI activity name' ends the
\* sheet; its other cells are left at one value, but for the parameter number.
ParamRows ==
    { r \in [ei : {Missing, "e1"}, num : ParamNumbers, Type : RawTypes,
             Default : Defaults] :
        isna(r.ei) => (r.Type = "int" /\ r.Default = 2) }

\* Rows of a custom or modified sheet: 'EI activity name', 'loc', 'parameter
\* number', 'Custom process name', 'Modified process name' and 'LCA algebraic
\* name'.  A row without 'EI activity name' is blank but for its number.
ActRows ==
    { r \in [ei : {Missing, "e1"}, loc : {Missing, "FR"}, num : ParamNumbers,
             cust : {Missing, "B"}, mod : {Missing}, lca : {"A"}] :
        isna(r.ei) => (isna(r.loc) /\ isna(r.cust)) }

\* The modified-sheet path reads only 'EI activity name' and 'parameter
\* number' (lines 173-174): the other cells of its rows are left empty.
ModRows == { r \in ActRows : isna(r.loc) /\ isna(r.cust) }

\* Rows of a foreground sheet, with the same columns.
FgRows ==
    { r \in [ei : {Missing, "e1"}, loc : {Missing, "FR"}, num : ParamNumbers,
             cust : {Missing, "A"}, mod : {Missing, "B"}, lca : {"A", "B"}] :
        /\ ~(notna(r.cust) /\ notna(r.mod))
        /\ isna(r.ei) => (isna(r.loc) /\ isna(r.cust) /\ isna(r.mod)
                          /\ r.lca = "A") }

\* str(sheet_name) + "_" + str(row["parameter number"]) (lines 46, 121, 174,
\* 203): over these sheet names and numbers the string determines the pair.
ParamName(sheet_name, num) == <<sheet_name, num>>

\* The registry after the parameter sheets were processed: parameter 1 of
\* every sheet is registered, parameter 2 is or is not.
RegistryUpTo(k) ==
    [key \in {ParamName(s, n) : s \in SheetSet \cup {"FG"}, n \in 1..k} |->
        key[2] + 1]
Registries == {RegistryUpTo(1), RegistryUpTo(2)}

\* The selected foreground sheet's name and the parameter sheet's name.
selected_foreground == "FG"
param_sheet_name == "A"

\* What process_parameters may find in the registry when it is called: nothing,
\* or a parameter registered by an earlier call.
EarlierRegistries ==
    { <<>>, [key \in {ParamName(param_sheet_name, 1)} |-> 3] }

\* The sheet-metadata table, one row per sheet in index order.
MetaRows(name) ==
    { [name |-> name, priority |-> p, type |-> t.type,
       original_name |-> "e1", original_loc |-> t.loc] :
        p \in 1..Len(SheetNames),
        t \in { [type |-> "custom", loc |-> Missing],
                [type |-> "modified", loc |-> "FR"],
                [type |-> "modified", loc |-> Missing] } }
Metas ==
    { m \in [1..Len(SheetNames) -> UNION {MetaRows(SheetNames[i]) : i \in 1..Len(SheetNames)}] :
        \A i \in 1..Len(SheetNames) : m[i].name = SheetNames[i] }

\* The arguments find_activity is called with.
FindArgs ==
    [ei : {"e1", "e2", "e3"}, loc : {Missing, "FR", "DE"},
     cust : {Missing, "A"}, mod : {Missing, "B"}]

NoTable == <<>>
EmptyMap == <<>>

\* --------------------------------------------------------------------------
\* State
\* --------------------------------------------------------------------------

VARIABLES
    proc,                  \* the procedure the driver called
    pc,                    \* where that procedure stands
    args,                  \* find_activity's arguments
    ret,                   \* find_activity's return value
    customDB,              \* names of the activities in the custom database
    parameter_registry,    \* parameter name -> parameter handle
    registry0,             \* the registry as the procedure received it
    calls,                 \* framework calls made (for the current sheet)
    call_order,            \* the sheets framework calls were made for, in order
    custom_meta_data_DF,   \* the sheet-metadata table
    sorted_sheets,         \* its index sorted by priority
    sheet_i,               \* position of the sheet loop in sorted_sheets
    df,                    \* the table iterated: params_df, sheet_df,
                           \* sheet_data or the selected foreground sheet
    index,                 \* position of the row loop in df
    accumulated_exchanges, \* activity -> amount (custom sheets)
    exchanges_dict         \* activity name -> amount (modified sheets)

vars == <<proc, pc, args, ret, customDB, parameter_registry, registry0, calls,
          call_order, custom_meta_data_DF, sorted_sheets, sheet_i, df, index,
          accumulated_exchanges, exchanges_dict>>

NoArgs == [ei |-> Missing, loc |-> Missing, cust |-> Missing, mod |-> Missing]

InitFind ==
    /\ proc = "find_activity" /\ pc = "call"
    /\ args \in FindArgs
    /\ customDB \in SUBSET {"A", "B"}
    /\ ret = NoneAct
    /\ parameter_registry = EmptyMap /\ registry0 = EmptyMap
    /\ calls = <<>> /\ call_order = <<>>
    /\ custom_meta_data_DF = NoTable /\ sorted_sheets = <<>> /\ sheet_i = 0
    /\ df = NoTable /\ index = 0
    /\ accumulated_exchanges = EmptyMap /\ exchanges_dict = EmptyMap

InitParams ==
    /\ proc = "process_parameters" /\ pc = "pp_start"
    /\ df \in Tables(ParamRows)
    /\ registry0 \in EarlierRegistries
    /\ parameter_registry = registry0
    /\ index = 0
    /\ args = NoArgs /\ ret = NoneAct /\ customDB = {}
    /\ calls = <<>> /\ call_order = <<>>
    /\ custom_meta_data_DF = NoTable /\ sorted_sheets = <<>> /\ sheet_i = 0
    /\ accumulated_exchanges = EmptyMap /\ exchanges_dict = EmptyMap

InitCustom ==
    /\ proc = "create_custom_activities" /\ pc = "cca_start"
    /\ custom_meta_data_DF \in Metas
    /\ registry0 \in Registries
    /\ parameter_registry = registry0
    /\ customDB = {}
    /\ sorted_sheets = <<>> /\ sheet_i = 0
    /\ df = NoTable /\ index = 0
    /\ args = NoArgs /\ ret = NoneAct
    /\ calls = <<>> /\ call_order = <<>>
    /\ accumulated_exchanges = EmptyMap /\ exchanges_dict = EmptyMap

InitForeground ==
    /\ proc = "create_foreground" /\ pc = "fg_loop"
    /\ df \in Tables(FgRows)
    /\ index = 1
    /\ registry0 \in Registries
    /\ parameter_registry = registry0
    /\ customDB \in {{}, {"B"}}
    /\ args = NoArgs /\ ret = NoneAct
    /\ calls = <<>> /\ call_order = <<>>
    /\ custom_meta_data_DF = NoTable /\ sorted_sheets = <<>> /\ sheet_i = 0
    /\ accumulated_exchanges = EmptyMap /\ exchanges_dict = EmptyMap

Init == InitFind \/ InitParams \/ InitCustom \/ InitForeground

\* --------------------------------------------------------------------------
\* find_activity, called by the driver
\* --------------------------------------------------------------------------

CallFindActivity ==
    /\ proc = "find_activity" /\ pc = "call"
    /\ LET r == find_activity(args.ei, args.loc, args.cust, args.mod, customDB, 0)
       IN  /\ ret' = r.ret
           /\ calls' = r.calls
    /\ pc' = "done"
    /\ UNCHANGED <<proc, args, customDB, parameter_registry, registry0,
                   call_order, custom_meta_data_DF, sorted_sheets, sheet_i,
                   df, index, accumulated_exchanges, exchanges_dict>>

\* --------------------------------------------------------------------------
\* process_parameters
\* --------------------------------------------------------------------------

\* Line 43: the Type column is normalised before the loop.
PP_NormalizeTypes ==
    /\ proc = "process_parameters" /\ pc = "pp_start"
    /\ df' = [i \in 1..Len(df) |-> [df[i] EXCEPT !.Type = Normalize(@)]]
    /\ index' = 1
    /\ pc' = "pp_loop"
    /\ UNCHANGED <<proc, args, ret, customDB, parameter_registry, registry0,
                   calls, call_order, custom_meta_data_DF, sorted_sheets,
                   sheet_i, accumulated_exchanges, exchanges_dict>>

PP_Unchanged ==
    UNCHANGED <<proc, args, ret, customDB, registry0, call_order,
                custom_meta_data_DF, sorted_sheets, sheet_i, df,
                accumulated_exchanges, exchanges_dict>>

PP_AtRow == proc = "process_parameters" /\ pc = "pp_loop" /\ index \in 1..Len(df)

\* Line 47.
param_type(row) == Normalize(row.Type)

\* Faulty variant of Register: an existing entry is kept.
Register_keep_first(registry, param_name, param) ==
    IF param_name \in DOMAIN registry THEN registry
    ELSE (param_name :> param) @@ registry

\* Line 87: parameter_registry[param_name] = param.
Register(registry, param_name, param) == (param_name :> param) @@ registry

\* Lines 49-51: a row without 'EI activity name' ends the loop.
PP_Break ==
    /\ PP_AtRow
    /\ isna(df[index].ei)
    /\ pc' = "done"
    /\ UNCHANGED <<parameter_registry, calls, index>>
    /\ PP_Unchanged

\* Lines 54-82 and 86-90: a float, bool or enum row.  The constructor may
\* raise (the framework, or a cell it reads); the exception is caught.
PP_NewParam(kind, constructor) ==
    /\ PP_AtRow
    /\ notna(df[index].ei)
    /\ param_type(df[index]) = kind
    /\ \E ok \in BOOLEAN :
        LET param_name == ParamName(param_sheet_name, df[index].num)
        IN  /\ calls' = Append(calls, [op |-> constructor, name |-> param_name,
                                       default |-> df[index].Default,
                                       ok |-> ok, row |-> index])
            /\ parameter_registry' =
                 IF ok THEN Register(parameter_registry, param_name, df[index].Default)
                 ELSE parameter_registry
    /\ index' = index + 1
    /\ UNCHANGED pc
    /\ PP_Unchanged

PP_Float == PP_NewParam("float", "newFloatParam")
PP_Bool == PP_NewParam("bool", "newBoolParam")
PP_Enum == PP_NewParam("enum", "newEnumParam")

\* Faulty variant of PP_Unsupported: the ValueError is not caught.
PP_Unsupported_raises ==
    /\ PP_AtRow
    /\ notna(df[index].ei)
    /\ param_type(df[index]) \notin {"float", "bool", "enum"}
    /\ pc' = "raised"
    /\ UNCHANGED <<parameter_registry, calls, index>>
    /\ PP_Unchanged

\* Lines 83-84 and 89-90: any other type raises ValueError, which is caught.
PP_Unsupported ==
    /\ PP_AtRow
    /\ notna(df[index].ei)
    /\ param_type(df[index]) \notin {"float", "bool", "enum"}
    /\ index' = index + 1
    /\ UNCHANGED <<parameter_registry, calls, pc>>
    /\ PP_Unchanged

\* The rows are exhausted.
PP_Exhausted ==
    /\ proc = "process_parameters" /\ pc = "pp_loop"
    /\ index > Len(df)
    /\ pc' = "done"
    /\ UNCHANGED <<parameter_registry, calls, index>>
    /\ PP_Unchanged

ProcessParameters ==
    \/ PP_NormalizeTypes \/ PP_Break \/ PP_Float \/ PP_Bool \/ PP_Enum
    \/ PP_Unsupported \/ PP_Exhausted

\* --------------------------------------------------------------------------
\* create_custom_activities
\* --------------------------------------------------------------------------

Last(seq) == seq[Len(seq)]

\* Faulty variant of SortedOrders: the index is taken as it stands.
SortedOrders_unsorted(meta) == { [i \in 1..Len(meta) |-> meta[i].name] }

\* Lines 99-104: sort_values(by="priority").index.tolist().  The default sort
\* is not stable, so sheets of equal priority may come in either order.
SortedOrders(meta) ==
    LET n == Len(meta)
        perms == {f \in [1..n -> 1..n] : \A i, j \in 1..n : i # j => f[i] # f[j]}
    IN  { [i \in 1..n |-> meta[f[i]].name] :
            f \in {g \in perms :
                     \A i, j \in 1..n :
                        i < j => meta[g[i]].priority <= meta[g[j]].priority} }

\* custom_meta_data_DF.loc[sheet_name].
MetaOf(sheet) ==
    custom_meta_data_DF[CHOOSE i \in 1..Len(custom_meta_data_DF) :
                            custom_meta_data_DF[i].name = sheet]

sheet_name == sorted_sheets[sheet_i]

\* eval(parameter_expression, {}, parameter_registry): the handle registered
\* under that name, or NameError.
Eval(registry, parameter_expression) ==
    IF parameter_expression \in DOMAIN registry
    THEN [ok |-> TRUE, value |-> registry[parameter_expression]]
    ELSE [ok |-> FALSE, value |-> 0]

\* Faulty variant of Accumulate: a later amount replaces the earlier one.
Accumulate_overwrite(exchanges, activity, value) == (activity :> value) @@ exchanges

\* Lines 139-142.
Accumulate(exchanges, activity, value) ==
    IF activity \in DOMAIN exchanges
    THEN [exchanges EXCEPT ![activity] = @ + value]
    ELSE (activity :> value) @@ exchanges

\* The log of the sheets framework calls are made for.
NoteCall(order, sheet) ==
    IF order # <<>> /\ Last(order) = sheet THEN order ELSE Append(order, sheet)

CCA_Sort ==
    /\ proc = "create_custom_activities" /\ pc = "cca_start"
    /\ sorted_sheets' \in SortedOrders(custom_meta_data_DF)
    /\ sheet_i' = 1
    /\ pc' = "cca_sheet"
    /\ UNCHANGED <<proc, args, ret, customDB, parameter_registry, registry0,
                   calls, call_order, custom_meta_data_DF, df, index,
                   accumulated_exchanges, exchanges_dict>>

CCA_AtSheet ==
    /\ proc = "create_custom_activities" /\ pc = "cca_sheet"
    /\ sheet_i \in 1..Len(sorted_sheets)

CCA_Unchanged ==
    UNCHANGED <<proc, args, ret, parameter_registry, registry0,
                custom_meta_data_DF, sorted_sheets>>

\* Line 107, outside every try: a sheet of the metadata table without a data
\* table raises KeyError, which leaves create_custom_activities.
CCA_ReadSheetRaises ==
    /\ CCA_AtSheet
    /\ pc' = "raised"
    /\ UNCHANGED <<customDB, calls, call_order, sheet_i, df, index,
                   accumulated_exchanges, exchanges_dict>>
    /\ CCA_Unchanged

\* Lines 107-112: the sheet's data table is read, and the sheet is a custom one.
CCA_ReadCustomSheet ==
    /\ CCA_AtSheet
    /\ MetaOf(sheet_name).type = "custom"
    /\ df' \in Tables(ActRows)
    /\ index' = 1
    /\ accumulated_exchanges' = EmptyMap
    /\ calls' = <<>>
    /\ pc' = "custom_rows"
    /\ UNCHANGED <<customDB, call_order, sheet_i, exchanges_dict>>
    /\ CCA_Unchanged

CCA_AtCustomRow ==
    /\ proc = "create_custom_activities" /\ pc = "custom_rows"
    /\ index \in 1..Len(df)

\* Faulty variant of Custom_Break: the row is skipped and the loop goes on.
Custom_Break_continue ==
    /\ CCA_AtCustomRow
    /\ isna(df[index].ei)
    /\ index' = index + 1
    /\ UNCHANGED <<pc, customDB, calls, call_order, sheet_i, df,
                   accumulated_exchanges, exchanges_dict>>
    /\ CCA_Unchanged

\* Lines 115-118: a row without 'EI activity name' ends the loop.
Custom_Break ==
    /\ CCA_AtCustomRow
    /\ isna(df[index].ei)
    /\ pc' = "custom_new"
    /\ UNCHANGED <<customDB, calls, call_order, sheet_i, df, index,
                   accumulated_exchanges, exchanges_dict>>
    /\ CCA_Unchanged

\* The rows are exhausted.
Custom_Exhausted ==
    /\ proc = "create_custom_activities" /\ pc = "custom_rows"
    /\ index > Len(df)
    /\ pc' = "custom_new"
    /\ UNCHANGED <<customDB, calls, call_order, sheet_i, df, index,
                   accumulated_exchanges, exchanges_dict>>
    /\ CCA_Unchanged

\* The row's activity, as lines 127-130 resolve it.
Resolve(row, i) == find_activity(row.ei, row.loc, row.cust, row.mod, customDB, i)

\* Lines 127-135: the activity is not found; the row is skipped.
Custom_Unresolved ==
    /\ CCA_AtCustomRow
    /\ notna(df[index].ei)
    /\ LET r == Resolve(df[index], index)
       IN  /\ r.ret = NoneAct
           /\ calls' = calls \o r.calls
    /\ call_order' = NoteCall(call_order, sheet_name)
    /\ index' = index + 1
    /\ UNCHANGED <<pc, customDB, sheet_i, df, accumulated_exchanges,
                   exchanges_dict>>
    /\ CCA_Unchanged

\* Lines 137-145: the parameter expression does not evaluate; the row is skipped.
Custom_EvalFails ==
    /\ CCA_AtCustomRow
    /\ notna(df[index].ei)
    /\ LET r == Resolve(df[index], index)
       IN  /\ r.ret # NoneAct
           /\ calls' = calls \o r.calls
    /\ ~Eval(parameter_registry, ParamName(sheet_name, df[index].num)).ok
    /\ call_order' = NoteCall(call_order, sheet_name)
    /\ index' = index + 1
    /\ UNCHANGED <<pc, customDB, sheet_i, df, accumulated_exchanges,
                   exchanges_dict>>
    /\ CCA_Unchanged

\* Lines 137-142: the amount is added to the activity's exchange.
Custom_Accumulate ==
    /\ CCA_AtCustomRow
    /\ notna(df[index].ei)
    /\ LET r == Resolve(df[index], index)
           e == Eval(parameter_registry, ParamName(sheet_name, df[index].num))
       IN  /\ r.ret # NoneAct
           /\ e.ok
           /\ calls' = calls \o r.calls
           /\ accumulated_exchanges' =
                 Accumulate(accumulated_exchanges, r.ret, e.value)
    /\ call_order' = NoteCall(call_order, sheet_name)
    /\ index' = index + 1
    /\ UNCHANGED <<pc, customDB, sheet_i, df, exchanges_dict>>
    /\ CCA_Unchanged

\* Lines 147-151: one newActivity for the sheet; an exception is caught.
Custom_NewActivity ==
    /\ proc = "create_custom_activities" /\ pc = "custom_new"
    /\ \E ok \in BOOLEAN :
        /\ calls' = Append(calls, [op |-> "newActivity", name |-> sheet_name,
                                   exchanges |-> accumulated_exchanges,
                                   ok |-> ok, row |-> 0])
        /\ customDB' = IF ok THEN customDB \cup {sheet_name} ELSE customDB
    /\ call_order' = NoteCall(call_order, sheet_name)
    /\ pc' = "sheet_end"
    /\ UNCHANGED <<sheet_i, df, index, accumulated_exchanges, exchanges_dict>>
    /\ CCA_Unchanged

\* Lines 107 and 153-158: the sheet's data table is read, and the sheet is a
\* modified one.
CCA_ReadModifiedSheet ==
    /\ CCA_AtSheet
    /\ MetaOf(sheet_name).type = "modified"
    /\ df' \in Tables(ModRows)
    /\ index' = 1
    /\ calls' = <<>>
    /\ pc' = "mod_locate"
    /\ UNCHANGED <<customDB, call_order, sheet_i, accumulated_exchanges,
                   exchanges_dict>>
    /\ CCA_Unchanged

\* Line 160: agb.findTechAct(original name, loc=original location); the
\* location is passed as it is, missing or not.
LocateOriginal(meta_row) == agb_findTechAct(meta_row.original_name, meta_row.original_loc)

LocateCall(meta_row) ==
    [op |-> "findTechAct", name |-> meta_row.original_name,
     loc |-> meta_row.original_loc, row |-> 0]

\* Lines 160-163 and 191-192: the original activity is not found (an exception,
\* or None); nothing is copied or updated.
Mod_LocateFails ==
    /\ proc = "create_custom_activities" /\ pc = "mod_locate"
    /\ ~LocateOriginal(MetaOf(sheet_name)).ok
    /\ calls' = Append(calls, LocateCall(MetaOf(sheet_name)))
    /\ call_order' = NoteCall(call_order, sheet_name)
    /\ pc' = "sheet_end"
    /\ UNCHANGED <<customDB, sheet_i, df, index, accumulated_exchanges,
                   exchanges_dict>>
    /\ CCA_Unchanged

\* Faulty variant of Mod_CopyActivity: the rows are evaluated and the update
\* is applied even when the copy failed.
Mod_CopyActivity_ignores_failure ==
    /\ proc = "create_custom_activities" /\ pc = "mod_locate"
    /\ LocateOriginal(MetaOf(sheet_name)).ok
    /\ \E ok \in BOOLEAN :
        /\ calls' = calls \o
              << LocateCall(MetaOf(sheet_name)),
                 [op |-> "copyActivity", name |-> sheet_name,
                  original |-> LocateOriginal(MetaOf(sheet_name)).act,
                  ok |-> ok, row |-> 0] >>
        /\ customDB' = IF ok THEN customDB \cup {sheet_name} ELSE customDB
        /\ exchanges_dict' = EmptyMap
        /\ pc' = "mod_rows"
    /\ call_order' = NoteCall(call_order, sheet_name)
    /\ index' = 1
    /\ UNCHANGED <<sheet_i, df, accumulated_exchanges>>
    /\ CCA_Unchanged

\* Lines 160-169 and 191-192: the original is found and copied under the
\* sheet's name; when copyActivity raises, the sheet is left.
Mod_CopyActivity ==
    /\ proc = "create_custom_activities" /\ pc = "mod_locate"
    /\ LocateOriginal(MetaOf(sheet_name)).ok
    /\ \E ok \in BOOLEAN :
        /\ calls' = calls \o
              << LocateCall(MetaOf(sheet_name)),
                 [op |-> "copyActivity", name |-> sheet_name,
                  original |-> LocateOriginal(MetaOf(sheet_name)).act,
                  ok |-> ok, row |-> 0] >>
        /\ customDB' = IF ok THEN customDB \cup {sheet_name} ELSE customDB
        /\ exchanges_dict' = IF ok THEN EmptyMap ELSE exchanges_dict
        /\ pc' = IF ok THEN "mod_rows" ELSE "sheet_end"
    /\ call_order' = NoteCall(call_order, sheet_name)
    /\ index' = 1
    /\ UNCHANGED <<sheet_i, df, accumulated_exchanges>>
    /\ CCA_Unchanged

CCA_AtModifiedRow ==
    /\ proc = "create_custom_activities" /\ pc = "mod_rows"
    /\ index \in 1..Len(df)

\* Lines 172-179: the row's amount is evaluated and stored under the row's
\* 'EI activity name', whatever that cell holds.
Mod_Eval ==
    /\ CCA_AtModifiedRow
    /\ LET e == Eval(parameter_registry, ParamName(sheet_name, df[index].num))
       IN  /\ e.ok
           /\ exchanges_dict' =
                 (df[index].ei :> [amount |-> e.value]) @@ exchanges_dict
    /\ index' = index + 1
    /\ UNCHANGED <<pc, customDB, calls, call_order, sheet_i, df,
                   accumulated_exchanges>>
    /\ CCA_Unchanged

\* Lines 180-182: the expression does not evaluate; the exchange is skipped.
Mod_EvalFails ==
    /\ CCA_AtModifiedRow
    /\ ~Eval(parameter_registry, ParamName(sheet_name, df[index].num)).ok
    /\ index' = index + 1
    /\ UNCHANGED <<pc, customDB, calls, call_order, sheet_i, df,
                   accumulated_exchanges, exchanges_dict>>
    /\ CCA_Unchanged

\* The rows are exhausted.
Mod_Exhausted ==
    /\ proc = "create_custom_activities" /\ pc = "mod_rows"
    /\ index > Len(df)
    /\ pc' = "mod_update"
    /\ UNCHANGED <<customDB, calls, call_order, sheet_i, df, index,
                   accumulated_exchanges, exchanges_dict>>
    /\ CCA_Unchanged

\* Lines 184-190: the batch update of the copy; an exception is caught and the
\* copy stays in the database.
Mod_UpdateExchanges ==
    /\ proc = "create_custom_activities" /\ pc = "mod_update"
    /\ \E ok \in BOOLEAN :
        calls' = Append(calls, [op |-> "updateExchanges", name |-> sheet_name,
                                exchanges |-> exchanges_dict,
                                ok |-> ok, row |-> 0])
    /\ call_order' = NoteCall(call_order, sheet_name)
    /\ pc' = "sheet_end"
    /\ UNCHANGED <<customDB, sheet_i, df, index, accumulated_exchanges,
                   exchanges_dict>>
    /\ CCA_Unchanged

\* Line 106: the sheet loop takes the next sheet.  The locals of the sheet
\* that ended are dead (lines 107, 112 and 169 assign them anew) and the log
\* of the sheet's calls is started afresh.
CCA_NextSheet ==
    /\ proc = "create_custom_activities" /\ pc = "sheet_end"
    /\ sheet_i' = sheet_i + 1
    /\ pc' = "cca_sheet"
    /\ df' = NoTable /\ index' = 0 /\ calls' = <<>>
    /\ accumulated_exchanges' = EmptyMap /\ exchanges_dict' = EmptyMap
    /\ UNCHANGED <<customDB, call_order>>
    /\ CCA_Unchanged

\* Line 195: all sheets are done.
CCA_Finish ==
    /\ proc = "create_custom_activities" /\ pc = "cca_sheet"
    /\ sheet_i > Len(sorted_sheets)
    /\ pc' = "done"
    /\ UNCHANGED <<customDB, calls, call_order, sheet_i, df, index,
                   accumulated_exchanges, exchanges_dict>>
    /\ CCA_Unchanged

CreateCustomActivities ==
    \/ CCA_Sort \/ CCA_ReadSheetRaises \/ CCA_ReadCustomSheet
    \/ Custom_Break \/ Custom_Exhausted \/ Custom_Unresolved
    \/ Custom_EvalFails \/ Custom_Accumulate \/ Custom_NewActivity
    \/ CCA_ReadModifiedSheet \/ Mod_LocateFails \/ Mod_CopyActivity
    \/ Mod_Eval \/ Mod_EvalFails \/ Mod_Exhausted \/ Mod_UpdateExchanges
    \/ CCA_NextSheet \/ CCA_Finish

\* --------------------------------------------------------------------------
\* create_foreground
\* --------------------------------------------------------------------------

FG_AtRow == proc = "create_foreground" /\ pc = "fg_loop" /\ index \in 1..Len(df)

FG_Unchanged ==
    UNCHANGED <<proc, args, ret, parameter_registry, registry0, call_order,
                custom_meta_data_DF, sorted_sheets, sheet_i, df,
                accumulated_exchanges, exchanges_dict>>

\* Lines 207-209: a row without 'EI activity name' ends the loop.
FG_Break ==
    /\ FG_AtRow
    /\ isna(df[index].ei)
    /\ pc' = "done"
    /\ UNCHANGED <<customDB, calls, index>>
    /\ FG_Unchanged

\* The rows are exhausted.
FG_Exhausted ==
    /\ proc = "create_foreground" /\ pc = "fg_loop"
    /\ index > Len(df)
    /\ pc' = "done"
    /\ UNCHANGED <<customDB, calls, index>>
    /\ FG_Unchanged

\* Lines 212-219: the activity is not found; the row is skipped.
FG_Unresolved ==
    /\ FG_AtRow
    /\ notna(df[index].ei)
    /\ LET r == Resolve(df[index], index)
       IN  /\ r.ret = NoneAct
           /\ calls' = calls \o r.calls
    /\ index' = index + 1
    /\ UNCHANGED <<pc, customDB>>
    /\ FG_Unchanged

\* Lines 221-225: the parameter expression does not evaluate; the row is skipped.
FG_EvalFails ==
    /\ FG_AtRow
    /\ notna(df[index].ei)
    /\ LET r == Resolve(df[index], index)
       IN  /\ r.ret # NoneAct
           /\ calls' = calls \o r.calls
    /\ ~Eval(parameter_registry, ParamName(selected_foreground, df[index].num)).ok
    /\ index' = index + 1
    /\ UNCHANGED <<pc, customDB>>
    /\ FG_Unchanged

\* Lines 221-231: one activity per row, with the row's single exchange; an
\* exception of newActivity is caught.
FG_NewActivity ==
    /\ FG_AtRow
    /\ notna(df[index].ei)
    /\ LET r == Resolve(df[index], index)
           e == Eval(parameter_registry, ParamName(selected_foreground, df[index].num))
       IN  /\ r.ret # NoneAct
           /\ e.ok
           /\ \E ok \in BOOLEAN :
                /\ calls' = calls \o r.calls \o
                      <<[op |-> "newActivity", name |-> df[index].lca,
                         exchanges |-> (r.ret :> e.value),
                         ok |-> ok, row |-> index]>>
                /\ customDB' = IF ok THEN customDB \cup {df[index].lca}
                               ELSE customDB
    /\ index' = index + 1
    /\ UNCHANGED pc
    /\ FG_Unchanged

CreateForeground ==
    \/ FG_Break \/ FG_Exhausted \/ FG_Unresolved \/ FG_EvalFails
    \/ FG_NewActivity

\* --------------------------------------------------------------------------
\* Specification
\* --------------------------------------------------------------------------

Next ==
    \/ CallFindActivity
    \/ ProcessParameters
    \/ CreateCustomActivities
    \/ CreateForeground

Spec == Init /\ [][Next]_vars

\* --------------------------------------------------------------------------
\* Properties
\* --------------------------------------------------------------------------

Range(seq) == {seq[i] : i \in 1..Len(seq)}

RECURSIVE SumSeq(_)
SumSeq(seq) == IF seq = <<>> THEN 0 ELSE seq[1] + SumSeq(Tail(seq))

\* The first row of the table without 'EI activity name' (the terminator), or
\* one past the table when there is none.
FirstTerminator(table) ==
    IF \E i \in 1..Len(table) : isna(table[i].ei)
    THEN CHOOSE i \in 1..Len(table) :
            /\ isna(table[i].ei)
            /\ \A j \in 1..(i - 1) : notna(table[j].ei)
    ELSE Len(table) + 1

CustomAct(name) == [db |-> "custom", name |-> name, loc |-> Missing]

FindDone == proc = "find_activity" /\ pc = "done"

\* Whether the lookup logged as call c finds an activity.
LookupSucceeds(c) ==
    IF c.op = "findActivity" THEN c.name \in customDB
    ELSE \E a \in BaseDB :
            /\ a.name = c.name
            /\ (c.loc = NotGiven \/ a.loc = c.loc)
            /\ \A b \in BaseDB :
                  (b.name = c.name /\ (c.loc = NotGiven \/ b.loc = c.loc)) => b = a

ModifiedHit == notna(args.mod) /\ args.mod \in customDB
CustomHit == notna(args.cust) /\ args.cust \in customDB

\* C1: find_activity returns the first lookup that succeeds, in the order
\* modified activity (if named), custom process (if named), ecoinvent; a
\* modified activity that is found is returned without any further lookup; and
\* None is returned exactly when every lookup that was made failed.
C1_ResolutionOrder ==
    FindDone =>
        /\ ModifiedHit =>
              /\ ret = CustomAct(args.mod)
              /\ calls = <<[op |-> "findActivity", name |-> args.mod, row |-> 0]>>
        /\ (~ModifiedHit /\ CustomHit) =>
              /\ ret = CustomAct(args.cust)
              /\ Last(calls) = [op |-> "findActivity", name |-> args.cust, row |-> 0]
              /\ \A c \in Range(calls) : c.op # "findTechAct"
        /\ (~ModifiedHit /\ ~CustomHit) =>
              /\ Last(calls).op = "findTechAct"
              /\ Last(calls).name = args.ei
              /\ LookupSucceeds(Last(calls)) =>
                    (ret.db = "ecoinvent" /\ ret.name = args.ei)
        /\ [i \in 1..Len(calls) |-> calls[i].name] =
              (IF notna(args.mod) THEN <<args.mod>> ELSE <<>>)
              \o (IF ~ModifiedHit /\ notna(args.cust) THEN <<args.cust>> ELSE <<>>)
              \o (IF ~ModifiedHit /\ ~CustomHit THEN <<args.ei>> ELSE <<>>)
        /\ (ret = NoneAct) <=> (\A c \in Range(calls) : ~LookupSucceeds(c))

\* The modified activity, the custom process and the ecoinvent activity would
\* all be found, and the modified activity is returned.
C1_Witness ==
    /\ FindDone
    /\ ModifiedHit /\ CustomHit
    /\ args.ei = "e1" /\ args.loc = "FR"
    /\ ret = CustomAct(args.mod)

\* C2: when neither the modified-activity name nor the custom-process name
\* resolves, find_activity makes the ecoinvent lookup and returns its match:
\* by name and location when the location is there, by name alone when it is
\* missing.
C2_BaseFallback ==
    (FindDone /\ ~ModifiedHit /\ ~CustomHit) =>
        /\ Last(calls).op = "findTechAct"
        /\ Last(calls).name = args.ei
        /\ notna(args.loc) =>
              /\ Last(calls).loc = args.loc
              /\ ret = IF [db |-> "ecoinvent", name |-> args.ei, loc |-> args.loc] \in BaseDB
                       THEN [db |-> "ecoinvent", name |-> args.ei, loc |-> args.loc]
                       ELSE NoneAct
        /\ isna(args.loc) =>
              /\ Last(calls).loc = NotGiven
              /\ ret = IF Cardinality({a \in BaseDB : a.name = args.ei}) = 1
                       THEN CHOOSE a \in BaseDB : a.name = args.ei
                       ELSE NoneAct

\* Both names are given and fail, the location is given, and the ecoinvent
\* activity at that location is returned although the name alone is ambiguous.
C2_Witness ==
    /\ FindDone
    /\ notna(args.mod) /\ notna(args.cust) /\ ~ModifiedHit /\ ~CustomHit
    /\ args.ei = "e1" /\ args.loc = "DE"
    /\ ret = [db |-> "ecoinvent", name |-> "e1", loc |-> "DE"]
    /\ Len(calls) = 3

InCustomProc == proc = "create_custom_activities"
SheetType == MetaOf(sheet_name).type

\* The custom database as it was while the current sheet's rows were resolved:
\* the sheet's own activity is added only by the call that ends the sheet.
DbAtRows == IF pc = "sheet_end" THEN customDB \ {sheet_name} ELSE customDB

\* What row i of the current custom sheet contributes: its resolved activity
\* and evaluated amount, when both succeed.
RowActivity(i) ==
    find_activity(df[i].ei, df[i].loc, df[i].cust, df[i].mod, DbAtRows, i).ret
RowAmount(i) == Eval(parameter_registry, ParamName(sheet_name, df[i].num))
Contributes(i) == RowActivity(i) # NoneAct /\ RowAmount(i).ok

\* The exchange map that rows 1..n of the current custom sheet add up to.
SummedExchanges(n) ==
    [a \in {RowActivity(i) : i \in {j \in 1..n : Contributes(j)}} |->
        SumSeq([i \in 1..n |->
                  IF Contributes(i) /\ RowActivity(i) = a
                  THEN RowAmount(i).value ELSE 0])]

NewActivityCalls == {i \in 1..Len(calls) : calls[i].op = "newActivity"}

\* C3: a custom sheet gets exactly one newActivity, made after its rows (no
\* lookup follows it), and the exchange map passed holds, for each activity,
\* the sum of the amounts of the rows before the terminator that resolved to
\* it and evaluated; rows that failed to resolve or to evaluate add nothing.
C3_AccumulatedExchanges ==
    (InCustomProc /\ pc \in {"custom_rows", "custom_new", "sheet_end"}
        /\ SheetType = "custom") =>
        /\ pc # "sheet_end" => NewActivityCalls = {}
        /\ pc = "sheet_end" =>
              /\ NewActivityCalls = {Len(calls)}
              /\ Last(calls).name = sheet_name
              /\ Last(calls).exchanges = SummedExchanges(FirstTerminator(df) - 1)

\* Two rows of a custom sheet resolve to the same activity with the amounts 2
\* and 3, and newActivity is passed 5 for it.
C3_Witness ==
    /\ InCustomProc /\ pc = "sheet_end" /\ SheetType = "custom"
    /\ Len(df) >= 2
    /\ Contributes(1) /\ Contributes(2)
    /\ RowActivity(1) = RowActivity(2)
    /\ RowAmount(1).value = 2 /\ RowAmount(2).value = 3
    /\ Last(calls).op = "newActivity"
    /\ Last(calls).exchanges[RowActivity(1)] = 5

Priority(sheet) == MetaOf(sheet).priority

\* C4: the sheets are processed in ascending priority: in the order in which
\* framework calls were made, no sheet comes back after another one, priorities
\* never decrease, and a sheet of strictly lower priority than one that has
\* made a call has made its own before it; so what earlier sheets created is
\* in the custom database while a later sheet's rows are resolved.
C4_PriorityOrder ==
    (InCustomProc /\ pc # "cca_start") =>
        /\ \A i, j \in 1..Len(call_order) :
              i < j => /\ call_order[i] # call_order[j]
                       /\ Priority(call_order[i]) <= Priority(call_order[j])
        /\ \A j \in 1..Len(call_order) : \A a \in SheetSet :
              Priority(a) < Priority(call_order[j]) =>
                  \E i \in 1..(j - 1) : call_order[i] = a
        /\ customDB \subseteq Range(call_order)
        /\ \A c \in Range(calls) : c.op = "newActivity" => c.name = Last(call_order)

\* Sheet A stands first in the metadata table with priority 2, sheet B second
\* with priority 1: B was processed first, and a row of A resolves to the
\* activity B created.
C4_Witness ==
    /\ InCustomProc /\ pc = "custom_new"
    /\ sheet_name = "A"
    /\ Priority("A") = 2 /\ Priority("B") = 1
    /\ call_order = <<"B", "A">>
    /\ CustomAct("B") \in DOMAIN accumulated_exchanges

InParams == proc = "process_parameters"
Supported(row) == param_type(row) \in {"float", "bool", "enum"}
CallsOfRow(i) == {j \in 1..Len(calls) : calls[j].row = i}
RowKey(i) == ParamName(param_sheet_name, df[i].num)

\* C5: a row of an unsupported type creates no parameter and registers
\* nothing (an entry under its key comes from the registry as received or from
\* a supported row whose constructor succeeded), the procedure does not stop
\* there, and every supported row before the terminator gets its constructor
\* call, and is registered when the call succeeds.
C5_UnsupportedSkipped ==
    InParams =>
        /\ pc \in {"pp_start", "pp_loop", "done"}
        /\ \A c \in Range(calls) :
              /\ Supported(df[c.row])
              /\ c.op = CASE param_type(df[c.row]) = "float" -> "newFloatParam"
                          [] param_type(df[c.row]) = "bool" -> "newBoolParam"
                          [] OTHER -> "newEnumParam"
        /\ \A k \in DOMAIN parameter_registry :
              \/ k \in DOMAIN registry0 /\ parameter_registry[k] = registry0[k]
              \/ \E c \in Range(calls) :
                    c.ok /\ c.name = k /\ parameter_registry[k] = c.default
        /\ pc = "done" =>
              /\ index = FirstTerminator(df)
              /\ \A i \in 1..(FirstTerminator(df) - 1) :
                    /\ Supported(df[i]) => Cardinality(CallsOfRow(i)) = 1
                    /\ ~Supported(df[i]) => CallsOfRow(i) = {}
                    /\ \A j \in CallsOfRow(i) :
                          calls[j].ok => RowKey(i) \in DOMAIN parameter_registry

\* The first row has an unsupported type, the second one a supported type and
\* another number: only the second one is in the registry.
C5_Witness ==
    /\ InParams /\ pc = "done"
    /\ Len(df) = 2
    /\ notna(df[1].ei) /\ notna(df[2].ei)
    /\ ~Supported(df[1]) /\ Supported(df[2])
    /\ RowKey(1) \notin DOMAIN parameter_registry
    /\ RowKey(2) \in DOMAIN parameter_registry
    /\ Len(calls) = 1 /\ calls[1].row = 2

InCustomRows ==
    /\ InCustomProc
    /\ pc \in {"custom_rows", "custom_new", "sheet_end"}
    /\ SheetType = "custom"
InForeground == proc = "create_foreground"

\* The row loop of one of the three procedures stands at a terminator row.
AtTerminator ==
    /\ pc \in {"pp_loop", "custom_rows", "fg_loop"}
    /\ index \in 1..Len(df)
    /\ isna(df[index].ei)

\* C6: in process_parameters, in the custom-sheet path and in
\* create_foreground the row loop never passes the first row without 'EI
\* activity name': every lookup and every creation was made for a row before
\* it, every registry entry added and every accumulated exchange comes from a
\* row before it, and the step taken at that row changes nothing that was
\* recorded.
C6_TerminatorStops ==
    /\ [](((InParams /\ pc # "pp_start") \/ InCustomRows \/ InForeground) =>
            /\ index <= FirstTerminator(df)
            /\ \A c \in Range(calls) : c.row < FirstTerminator(df)
            /\ InParams =>
                  \A k \in DOMAIN parameter_registry :
                      \/ k \in DOMAIN registry0 /\ parameter_registry[k] = registry0[k]
                      \/ \E i \in 1..(FirstTerminator(df) - 1) : RowKey(i) = k
            /\ InCustomRows =>
                  \A a \in DOMAIN accumulated_exchanges :
                      \E i \in 1..(FirstTerminator(df) - 1) :
                          Contributes(i) /\ RowActivity(i) = a
            /\ (pc \in {"done", "custom_new"}) => index = FirstTerminator(df))
    /\ [][AtTerminator =>
            /\ parameter_registry' = parameter_registry
            /\ accumulated_exchanges' = accumulated_exchanges
            /\ customDB' = customDB
            /\ calls' = calls
            /\ index' = index
            /\ pc' \in {"done", "custom_new"}]_vars

\* A custom sheet whose first row is the terminator and whose second row would
\* resolve and evaluate: the loop stopped at the first row with nothing looked
\* up and nothing accumulated.
C6_Witness ==
    /\ InCustomProc /\ pc = "custom_new"
    /\ Len(df) = 2
    /\ isna(df[1].ei)
    /\ Contributes(2)
    /\ index = 1
    /\ calls = <<>> /\ accumulated_exchanges = EmptyMap

InModifiedSheet ==
    /\ InCustomProc
    /\ pc \in {"mod_locate", "mod_rows", "mod_update", "sheet_end"}
    /\ SheetType = "modified"

\* C7 (as claimed): in the modified-sheet path the row loop stops at the first
\* row without 'EI activity name': it never passes that row, and every entry
\* of the exchanges for the batch update comes from a row before it.
C7_ModifiedTerminator ==
    (InModifiedSheet /\ pc # "mod_locate") =>
        /\ index <= FirstTerminator(df)
        /\ \A n \in DOMAIN exchanges_dict :
              \E i \in 1..(FirstTerminator(df) - 1) : df[i].ei = n

\* C8 (as claimed): no failure makes a procedure raise; a run of
\* create_custom_activities ends with all sheets visited.
C8_NeverHalts ==
    /\ pc # "raised"
    /\ (InCustomProc /\ pc \notin {"cca_start", "done"}) =>
          sheet_i \in 1..(Len(sorted_sheets) + 1)

\* C9 (as claimed): the registry is write-once per key: no step replaces or
\* removes the handle stored under a key.
C9_WriteOnce ==
    [][\A k \in DOMAIN parameter_registry :
          /\ k \in DOMAIN parameter_registry'
          /\ parameter_registry'[k] = parameter_registry[k]]_vars

OkCallsFor(k) == {j \in 1..Len(calls) : calls[j].ok /\ calls[j].name = k}
Max(S) == CHOOSE x \in S : \A y \in S : y <= x

\* C9 (amended): the registry never loses a key, and each key maps to the
\* handle of the last parameter successfully created under it: a later row (or
\* call) with the same key replaces the handle, and a row whose constructor
\* fails leaves it.
C9_LastWriteWins ==
    /\ InParams =>
        /\ DOMAIN parameter_registry =
              DOMAIN registry0 \cup {calls[j].name : j \in {i \in 1..Len(calls) : calls[i].ok}}
        /\ \A k \in DOMAIN parameter_registry :
              parameter_registry[k] =
                  IF OkCallsFor(k) = {} THEN registry0[k]
                  ELSE calls[Max(OkCallsFor(k))].default
    /\ ~InParams => parameter_registry = registry0

\* Two rows of one sheet carry the same parameter number and both
\* constructors succeed: the registry holds the second handle, not the first.
C9_Witness ==
    /\ InParams /\ pc = "done"
    /\ Len(calls) = 2
    /\ calls[1].ok /\ calls[2].ok
    /\ calls[1].name = calls[2].name
    /\ calls[1].default # calls[2].default
    /\ parameter_registry[calls[1].name] = calls[2].default

\* The exchanges a batch update of the current modified sheet is to carry: one
\* entry per 'EI activity name' of a row that evaluated, with the amount of the
\* last such row.
EvaluatedRows(name) == {i \in 1..Len(df) : df[i].ei = name /\ RowAmount(i).ok}
BatchExchanges ==
    [n \in {df[i].ei : i \in {j \in 1..Len(df) : RowAmount(j).ok}} |->
        [amount |-> RowAmount(Max(EvaluatedRows(n))).value]]

\* C10: a modified sheet's framework calls are, in this order, the lookup of
\* the original, the copy and the batch update, each at most once and each
\* only after the one before it succeeded; a failed lookup or copy ends the
\* sheet without an update and without stopping the run; the update is made
\* once the copy succeeded, with the exchanges of the rows that evaluated,
\* whatever rows failed to evaluate; and the copy stays in the database when
\* the update fails.
C10_ModifiedOrder ==
    InModifiedSheet =>
        /\ Len(calls) <= 3
        /\ Len(calls) >= 1 =>
              /\ calls[1].op = "findTechAct"
              /\ calls[1].name = MetaOf(sheet_name).original_name
              /\ calls[1].loc = MetaOf(sheet_name).original_loc
        /\ Len(calls) >= 2 =>
              /\ LookupSucceeds(calls[1])
              /\ calls[2].op = "copyActivity"
              /\ calls[2].name = sheet_name
              /\ calls[2].ok => sheet_name \in customDB
        /\ Len(calls) = 3 =>
              /\ calls[2].ok
              /\ calls[3].op = "updateExchanges"
              /\ calls[3].name = sheet_name
              /\ calls[3].exchanges = BatchExchanges
        /\ pc = "sheet_end" =>
              /\ Len(calls) = (IF ~LookupSucceeds(calls[1]) THEN 1
                               ELSE IF ~calls[2].ok THEN 2 ELSE 3)
        /\ pc \in {"mod_rows", "mod_update"} => (Len(calls) = 2 /\ calls[2].ok)

\* The copy succeeded, one row failed to evaluate and another one evaluated,
\* the update was made with the one exchange and failed, and the copy is still
\* in the database.
C10_Witness ==
    /\ InModifiedSheet /\ pc = "sheet_end"
    /\ Len(calls) = 3
    /\ ~calls[3].ok
    /\ Len(df) = 2
    /\ ~RowAmount(1).ok /\ RowAmount(2).ok
    /\ DOMAIN calls[3].exchanges = {df[2].ei}
    /\ sheet_name \in customDB

=============================================================================
